---- MODULE Spec2Model ----
(***************************************************************************)
(* stocko (src/main.rs): a command-line portfolio tracker.  Every command  *)
(* is one invocation of the program: it loads stocko_data.json, changes    *)
(* the collections in memory and writes the whole file back.               *)
(*                                                                         *)
(* Strings are sequences of one-character strings, so that to_uppercase,   *)
(* to_lowercase and push_str are computed and not assumed.                 *)
(* Share prices range over small integer-valued f64: every f64 sum and     *)
(* product of the model stays below 2^53 and is therefore exact.           *)
(***************************************************************************)
EXTENDS Integers, Sequences, FiniteSets, TLC

\* ------------------------------------------------------------------ bounds

\* Commands run one after the other (specification Spec).
MaxCmds == 4
\* Commands started by the two overlapping invocations (specification SpecConc).
MaxConcCmds == 2
\* Length of the order lists handed to calculate_order_metrics (SpecMetrics).
MaxOrders == 3

\* ------------------------------------------------------------------ i32

\* i32::MAX: Order.shares and OrderMetrics.total_shares are i32.
MaxI32 == 2147483647
MinI32 == (-MaxI32) - 1

\* An exact integer, q * 2^31 + r with 0 <= r < 2^31: the arithmetic value of
\* a sum that an i32 may not hold.
WideZero == [q |-> 0, r |-> 0]

\* w + s for an i32 s.
WideAdd(w, s) ==
    IF s >= 0
    THEN IF w.r > MaxI32 - s
         THEN [q |-> w.q + 1, r |-> (w.r - (MaxI32 - s)) - 1]
         ELSE [q |-> w.q, r |-> w.r + s]
    ELSE IF w.r + s < 0
         THEN [q |-> w.q - 1, r |-> ((w.r + s) + MaxI32) + 1]
         ELSE [q |-> w.q, r |-> w.r + s]

WideOf(s) == WideAdd(WideZero, s)

WidePositive(w) == w.q > 0 \/ (w.q = 0 /\ w.r > 0)

\* n > w for an i32 n.
ExceedsWide(n, w) == w.q < 0 \/ (w.q = 0 /\ n > w.r)

\* The arithmetic sum of the signed shares of an order list.
RECURSIVE NetShares(_)
NetShares(orders) ==
    IF orders = <<>> THEN WideZero
    ELSE WideAdd(NetShares(SubSeq(orders, 1, Len(orders) - 1)),
                 orders[Len(orders)].shares)

\* ------------------------------------------------------------------ strings

to_uppercase_char(c) ==
    CASE c = "a" -> "A"
      [] c = "b" -> "B"
      [] c = "e" -> "E"
      [] c = "n" -> "N"
      [] c = "s" -> "S"
      [] c = "t" -> "T"
      [] c = "v" -> "V"
      [] c = "x" -> "X"
      [] c = "y" -> "Y"
      [] OTHER -> c

to_lowercase_char(c) ==
    CASE c = "A" -> "a"
      [] c = "B" -> "b"
      [] c = "E" -> "e"
      [] c = "N" -> "n"
      [] c = "S" -> "s"
      [] c = "T" -> "t"
      [] c = "V" -> "v"
      [] c = "X" -> "x"
      [] c = "Y" -> "y"
      [] OTHER -> c

to_uppercase(s) == [i \in 1..Len(s) |-> to_uppercase_char(s[i])]
to_lowercase(s) == [i \in 1..Len(s) |-> to_lowercase_char(s[i])]

\* Option<&str>
None == [some |-> FALSE, v |-> <<>>]
Some(s) == [some |-> TRUE, v |-> s]

\* ------------------------------------------------------------------ errors

NoResult == [kind |-> "None", symbol |-> <<>>, shares |-> 0]
Ok == [kind |-> "Ok", symbol |-> <<>>, shares |-> 0]
Err(k) == [kind |-> k, symbol |-> <<>>, shares |-> 0]
InvalidShareQuantity(symbol, shares) ==
    [kind |-> "InvalidShareQuantity", symbol |-> symbol, shares |-> shares]
\* An arithmetic overflow panic of a build with overflow checks, or a failed unwrap.
Panic == Err("Panic")

\* ------------------------------------------------------------------ exchanges

from_symbol(symbol) ==
    IF symbol.some
    THEN LET l == to_lowercase(symbol.v) IN
         CASE l = <<"t", "s", "x">> -> [ok |-> TRUE, exchange |-> "TSX"]
           [] l = <<"t", "s", "x", "v">> -> [ok |-> TRUE, exchange |-> "TSXV"]
           [] l = <<"n", "s", "y", "e">> -> [ok |-> TRUE, exchange |-> "NYSE"]
           [] OTHER -> [ok |-> FALSE, exchange |-> "NYSE"]
    ELSE [ok |-> TRUE, exchange |-> "NYSE"]

suffix_for_exchange_symbol(exchange_symbol) ==
    LET l == to_lowercase(exchange_symbol) IN
    CASE l = <<"t", "s", "x">> -> [ok |-> TRUE, suffix |-> <<".", "T", "O">>]
      [] l = <<"t", "s", "x", "v">> -> [ok |-> TRUE, suffix |-> <<".", "V">>]
      [] l = <<"n", "s", "y", "e">> -> [ok |-> TRUE, suffix |-> <<>>]
      [] OTHER -> [ok |-> FALSE, suffix |-> <<>>]

\* ------------------------------------------------------------------ state

VARIABLES
    file,             \* stocko_data.json: [kind, doc, len]
    overflow_checks,  \* the build: TRUE panics on i32 overflow, FALSE wraps
    ncmds,            \* commands started so far
    pc,               \* per invocation: "idle", "save_open", "save_write"
    cmd,              \* per invocation: the command line of its last command
    mem,              \* per invocation: the collections it is about to save
    result,           \* per invocation: how its last command ended
    before,           \* per invocation: the file when its last command started
    probe,            \* per invocation: the quote fetch of its last command
    save_called,      \* per invocation: whether its last command called save_data
    last_written,     \* the serialization of the last write_all that returned Ok
    ledger,           \* SpecMetrics: an order list
    reordered,        \* SpecMetrics: a permutation of ledger
    metrics,          \* SpecMetrics: calculate_order_metrics of ledger
    metrics_reordered \* SpecMetrics: calculate_order_metrics of reordered

vars == <<file, overflow_checks, ncmds, pc, cmd, mem, result, before, probe,
          save_called, last_written, ledger, reordered, metrics, metrics_reordered>>

\* ------------------------------------------------------------------ order metrics

\* acc + x on i32: a panic with overflow checks, two's complement without.
i32_add(acc, x) ==
    IF acc > 0 /\ x > 0 /\ acc > MaxI32 - x
    THEN [panic |-> overflow_checks, v |-> ((acc - MaxI32) - 1) + ((x - MaxI32) - 1)]
    ELSE IF acc < 0 /\ x < 0 /\ acc < MinI32 - x
    THEN [panic |-> overflow_checks, v |-> ((acc + MaxI32) + 1) + ((x + MaxI32) + 1)]
    ELSE [panic |-> FALSE, v |-> acc + x]

\* x.abs() on i32: i32::MIN has no absolute value.
i32_abs(x) ==
    IF x = MinI32 THEN [panic |-> overflow_checks, v |-> MinI32]
    ELSE [panic |-> FALSE, v |-> IF x < 0 THEN -x ELSE x]

\* self.orders.iter().fold(0, |acc, x| acc + x.shares)
RECURSIVE fold_shares(_)
fold_shares(orders) ==
    IF orders = <<>> THEN [panic |-> FALSE, v |-> 0]
    ELSE LET acc == fold_shares(SubSeq(orders, 1, Len(orders) - 1)) IN
         IF acc.panic THEN acc ELSE i32_add(acc.v, orders[Len(orders)].shares)

\* shares as f64 * share_price, exact: share_price is a small natural number.
RECURSIVE f64_mul(_, _)
f64_mul(shares, share_price) ==
    IF share_price = 0 THEN WideZero
    ELSE WideAdd(f64_mul(shares, share_price - 1), shares)

\* acc + w on exact values.
WideSum(a, b) ==
    LET lo == WideAdd([q |-> 0, r |-> a.r], b.r) IN
    [q |-> a.q + b.q + lo.q, r |-> lo.r]

\* filter(|x| x.shares > 0).fold(0.0, |acc, x| acc + x.shares as f64 * x.share_price)
RECURSIVE fold_spent(_)
fold_spent(orders) ==
    IF orders = <<>> THEN WideZero
    ELSE LET x == orders[Len(orders)]
             acc == fold_spent(SubSeq(orders, 1, Len(orders) - 1)) IN
         IF x.shares > 0 THEN WideSum(acc, f64_mul(x.shares, x.share_price)) ELSE acc

\* filter(|x| x.shares < 0).fold(0.0, |acc, x| acc + x.shares.abs() as f64 * x.share_price)
RECURSIVE fold_sell(_)
fold_sell(orders) ==
    IF orders = <<>> THEN [panic |-> FALSE, v |-> WideZero]
    ELSE LET x == orders[Len(orders)]
             acc == fold_sell(SubSeq(orders, 1, Len(orders) - 1)) IN
         IF acc.panic \/ ~(x.shares < 0) THEN acc
         ELSE LET a == i32_abs(x.shares) IN
              IF a.panic THEN [panic |-> TRUE, v |-> acc.v]
              ELSE [panic |-> FALSE, v |-> WideSum(acc.v, f64_mul(a.v, x.share_price))]

\* Stock::calculate_order_metrics.  average_price is the quotient
\* total_spent / total_shares, left unevaluated (NaN or infinite when den = 0).
calculate_order_metrics(orders) ==
    LET total_spent == fold_spent(orders)
        total_sell == fold_sell(orders)
        total_shares == fold_shares(orders) IN
    [panic |-> total_sell.panic \/ total_shares.panic,
     total_spent |-> total_spent,
     total_shares |-> total_shares.v,
     average_price |-> [num |-> total_spent, den |-> total_shares.v],
     total_sell |-> total_sell.v]

\* ------------------------------------------------------------------ collections

\* StockCollections::new()
new == [portfolio |-> <<>>, watchlist |-> <<>>, archive |-> <<>>]

\* Stock { symbol, exchange, orders: Vec::new(), ..Default::default() }
Stock(symbol, exchange) ==
    [symbol |-> symbol, exchange |-> exchange, orders |-> <<>>, price |-> 0]

Order(shares, share_price) == [shares |-> shares, share_price |-> share_price]

\* HashMap::insert, HashMap::remove
insert(map, key, value) ==
    [k \in DOMAIN map \cup {key} |-> IF k = key THEN value ELSE map[k]]
remove(map, key) == [k \in DOMAIN map \ {key} |-> map[k]]

\* ------------------------------------------------------------------ the data file

\* serde_json::to_vec: the price field is skipped (#[serde(skip_serializing)]).
to_vec_stock(stock) ==
    [symbol |-> stock.symbol, exchange |-> stock.exchange, orders |-> stock.orders]
to_vec(collections) ==
    [portfolio |-> [k \in DOMAIN collections.portfolio |->
                        to_vec_stock(collections.portfolio[k])],
     watchlist |-> [k \in DOMAIN collections.watchlist |->
                        to_vec_stock(collections.watchlist[k])],
     archive |-> [k \in DOMAIN collections.archive |->
                      to_vec_stock(collections.archive[k])]]

\* serde_json::from_str: the price field takes its default (#[serde(default)]).
from_str_stock(json) ==
    [symbol |-> json.symbol, exchange |-> json.exchange, orders |-> json.orders,
     price |-> 0]
from_str(json) ==
    [portfolio |-> [k \in DOMAIN json.portfolio |-> from_str_stock(json.portfolio[k])],
     watchlist |-> [k \in DOMAIN json.watchlist |-> from_str_stock(json.watchlist[k])],
     archive |-> [k \in DOMAIN json.archive |-> from_str_stock(json.archive[k])]]

\* The number of decimal digits of a natural number.
RECURSIVE Digits(_)
Digits(n) == IF n < 10 THEN 1 ELSE 1 + Digits(n \div 10)

RECURSIVE SumOver(_, _)
SumOver(S, f) ==
    IF S = {} THEN 0
    ELSE LET x == CHOOSE y \in S : TRUE IN f[x] + SumOver(S \ {x}, f)

\* The number of bytes serde_json writes for a value (compact, no white space):
\*   {"shares":10,"share_price":5.0}
\*   {"symbol":"A","exchange":"NYSE","orders":[...]}
\*   {"portfolio":{"A":...},"watchlist":{},"archive":{}}
JsonLenOrder(order) ==
    26 + (IF order.shares < 0 THEN 1 + Digits(-order.shares) ELSE Digits(order.shares))
       + (Digits(order.share_price) + 2)
JsonLenList(n, total) == 2 + total + (IF n > 1 THEN n - 1 ELSE 0)
JsonLenExchange(exchange) == IF exchange = "TSX" THEN 3 ELSE 4
JsonLenStock(stock) ==
    37 + Len(stock.symbol) + JsonLenExchange(stock.exchange)
       + JsonLenList(Len(stock.orders),
                     SumOver(DOMAIN stock.orders,
                             [i \in DOMAIN stock.orders |-> JsonLenOrder(stock.orders[i])]))
JsonLenMap(map) ==
    JsonLenList(Cardinality(DOMAIN map),
                SumOver(DOMAIN map,
                        [k \in DOMAIN map |-> Len(k) + 3 + JsonLenStock(map[k])]))
JsonLen(json) ==
    38 + JsonLenMap(json.portfolio) + JsonLenMap(json.watchlist)
       + JsonLenMap(json.archive)

\* The content of stocko_data.json: no file, a file of no bytes, the complete
\* serialization of doc, or len bytes that are no complete serialization.
Absent == [kind |-> "absent", doc |-> to_vec(new), len |-> 0]
Empty == [kind |-> "empty", doc |-> to_vec(new), len |-> 0]
Json(doc) == [kind |-> "json", doc |-> doc, len |-> JsonLen(doc)]
Torn(len) == [kind |-> "torn", doc |-> to_vec(new), len |-> len]

Max(a, b) == IF a > b THEN a ELSE b

\* file.write_all(json) on a descriptor at offset 0, all bytes written: bytes of
\* the file beyond the written ones stay.
write_all(f, json) ==
    IF JsonLen(json) >= f.len THEN Json(json) ELSE Torn(f.len)

\* file.write_all(json) failing after n bytes, n < JsonLen(json).
write_some(f, n) ==
    IF n = 0 THEN f ELSE Torn(Max(f.len, n))

\* load_data
load_data ==
    IF file.kind = "absent" THEN [ok |-> TRUE, collections |-> new]
    ELSE IF file.kind = "json" THEN [ok |-> TRUE, collections |-> from_str(file.doc)]
    ELSE [ok |-> FALSE, collections |-> new]

\* ------------------------------------------------------------------ commands

\* How the part of a command before save_data ends: with an error (save FALSE),
\* or with the collections to save.
Abort(error) == [save |-> FALSE, result |-> error, collections |-> new]
Save(collections) == [save |-> TRUE, result |-> NoResult, collections |-> collections]

\* The oversell test off by one: a sell of one share more than held passes.
sells_more_than_held_by_two(shares, total_shares, abs) ==
    shares < 0 /\ total_shares < abs - 1

\* process_order: shares < 0 && total_shares < shares.abs()
sells_more_than_held(shares, total_shares, abs) == shares < 0 /\ total_shares < abs

\* The close-out test comparing with shares instead of shares.abs().
sells_all_held_signed(shares, total_shares, abs) == shares < 0 /\ total_shares = shares

\* process_order: shares < 0 && total_shares == shares.abs()
sells_all_held(shares, total_shares, abs) == shares < 0 /\ total_shares = abs

\* process_order, from load_data up to the call of save_data.
process_order(symbol, exchange_symbol, shares, price) ==
    LET loaded == load_data
        collection == loaded.collections
        absent == symbol \notin DOMAIN collection.portfolio
        exchange == from_symbol(exchange_symbol)
        abs == i32_abs(shares)
    IN
    IF ~loaded.ok THEN Abort(Err("ReadDataError"))
    ELSE IF absent /\ shares > 0 /\ ~exchange.ok THEN Abort(Err("InvalidExchange"))
    ELSE IF absent /\ ~(shares > 0)
    THEN IF abs.panic THEN Abort(Panic) ELSE Abort(InvalidShareQuantity(symbol, abs.v))
    ELSE
    LET inserted ==
            IF absent
            THEN [collection EXCEPT
                    !.portfolio = insert(@, to_uppercase(symbol),
                                         Stock(to_uppercase(symbol), exchange.exchange))]
            ELSE collection
    IN
    IF symbol \notin DOMAIN inserted.portfolio THEN Abort(Panic)
    ELSE
    LET stock == inserted.portfolio[symbol]
        order_metrics == calculate_order_metrics(stock.orders)
        total_shares == order_metrics.total_shares
        pushed == [stock EXCEPT !.orders = Append(@, Order(shares, price))]
    IN
    IF order_metrics.panic \/ (shares < 0 /\ abs.panic) THEN Abort(Panic)
    ELSE IF sells_more_than_held(shares, total_shares, abs.v)
    THEN Abort(InvalidShareQuantity(symbol, abs.v))
    ELSE IF sells_all_held(shares, total_shares, abs.v)
    THEN Save([inserted EXCEPT !.portfolio = remove(@, symbol),
                               !.archive = insert(@, symbol, pushed)])
    ELSE Save([inserted EXCEPT !.portfolio = insert(@, symbol, pushed)])

\* watch with the entry keyed by the symbol as typed.
watch_key_as_typed(symbol, exchange_symbol, fetched) ==
    LET loaded == load_data
        exchange == from_symbol(exchange_symbol)
    IN
    IF ~loaded.ok THEN Abort(Err("ReadDataError"))
    ELSE IF ~fetched THEN Abort(Err("AlphaVantageError"))
    ELSE IF ~exchange.ok THEN Abort(Err("InvalidExchange"))
    ELSE Save([loaded.collections EXCEPT
                 !.watchlist = insert(@, symbol,
                                      Stock(to_uppercase(symbol), exchange.exchange))])

\* watch with the result of the probe fetch dropped.
watch_ignoring_fetch(symbol, exchange_symbol, fetched) ==
    LET loaded == load_data
        exchange == from_symbol(exchange_symbol)
    IN
    IF ~loaded.ok THEN Abort(Err("ReadDataError"))
    ELSE IF ~exchange.ok THEN Abort(Err("InvalidExchange"))
    ELSE Save([loaded.collections EXCEPT
                 !.watchlist = insert(@, to_uppercase(symbol),
                                      Stock(to_uppercase(symbol), exchange.exchange))])

\* watch, from load_data up to the call of save_data; fetched is whether
\* fetch_symbol_time_series returned a time series.
watch(symbol, exchange_symbol, fetched) ==
    LET loaded == load_data
        exchange == from_symbol(exchange_symbol)
    IN
    IF ~loaded.ok THEN Abort(Err("ReadDataError"))
    ELSE IF ~fetched THEN Abort(Err("AlphaVantageError"))
    ELSE IF ~exchange.ok THEN Abort(Err("InvalidExchange"))
    ELSE Save([loaded.collections EXCEPT
                 !.watchlist = insert(@, to_uppercase(symbol),
                                      Stock(to_uppercase(symbol), exchange.exchange))])

\* main: the symbol with the suffix of the exchange pushed onto it.
main_symbol(symbol, exchange_value) ==
    IF exchange_value.some
    THEN LET suffix == suffix_for_exchange_symbol(exchange_value.v) IN
         [ok |-> suffix.ok, symbol |-> symbol \o suffix.suffix]
    ELSE [ok |-> TRUE, symbol |-> symbol]

\* main, the buy and sell branch.
main_order(name, symbol, exchange_value, shares, price) ==
    LET s == main_symbol(symbol, exchange_value) IN
    IF ~s.ok THEN Abort(Err("InvalidExchange"))
    ELSE process_order(to_uppercase(s.symbol), exchange_value,
                       IF name = "sell" THEN shares * (-1) ELSE shares, price)

\* main, the watch branch.
main_watch(symbol, exchange_value, fetched) ==
    LET s == main_symbol(symbol, exchange_value) IN
    IF ~s.ok THEN Abort(Err("InvalidExchange"))
    ELSE watch(s.symbol, exchange_value, fetched)

\* ------------------------------------------------------------------ inputs

\* The two invocations that may overlap; commands of Spec all run as invocation 1.
Procs == {1, 2}

\* Command-line arguments.  The shares argument is not negative: main negates it
\* for sell, so every order of a buy has shares >= 0 and of a sell shares <= 0.
SymbolArgs == {<<"a">>}
ExchangeArgs == {None, Some(<<"T", "S", "X">>), Some(<<"n", "y", "s", "e">>)}
ShareArgs == {0, 1, 3, MaxI32}
PriceArgs == {5}

Command(name, symbol, exchange, shares, price) ==
    [name |-> name, symbol |-> symbol, exchange |-> exchange, shares |-> shares,
     price |-> price]
NoCommand == Command("none", <<>>, None, 0, 0)

\* ------------------------------------------------------------------ actions

\* Invocation p runs command c up to its call of save_data (out.save) or to
\* its error.
Begin(p, limit, c, out, fetch) ==
    /\ pc[p] = "idle"
    /\ ncmds < limit
    /\ ncmds' = ncmds + 1
    /\ cmd' = [cmd EXCEPT ![p] = c]
    /\ before' = [before EXCEPT ![p] = file]
    /\ probe' = [probe EXCEPT ![p] = fetch]
    /\ save_called' = [save_called EXCEPT ![p] = out.save]
    /\ mem' = [mem EXCEPT ![p] = out.collections]
    /\ result' = [result EXCEPT ![p] = out.result]
    /\ pc' = [pc EXCEPT ![p] = IF out.save THEN "save_open" ELSE "idle"]
    /\ UNCHANGED <<file, overflow_checks, last_written, ledger, reordered, metrics,
                   metrics_reordered>>

\* stocko buy <symbol> -s <shares> -p <price> [-e <exchange>]
Buy(p, limit) ==
    \E symbol \in SymbolArgs, exchange \in ExchangeArgs, shares \in ShareArgs,
       price \in PriceArgs :
        Begin(p, limit, Command("buy", symbol, exchange, shares, price),
              main_order("buy", symbol, exchange, shares, price), "none")

\* stocko sell <symbol> -s <shares> -p <price> [-e <exchange>]
Sell(p, limit) ==
    \E symbol \in SymbolArgs, exchange \in ExchangeArgs, shares \in ShareArgs,
       price \in PriceArgs :
        Begin(p, limit, Command("sell", symbol, exchange, shares, price),
              main_order("sell", symbol, exchange, shares, price), "none")

\* stocko watch <symbol> [exchange]; the quote provider answers or fails.
Watch(p, limit) ==
    \E symbol \in SymbolArgs, exchange \in ExchangeArgs, fetched \in BOOLEAN :
        Begin(p, limit, Command("watch", symbol, exchange, 0, 0),
              main_watch(symbol, exchange, fetched),
              IF main_symbol(symbol, exchange).ok /\ load_data.ok
              THEN (IF fetched THEN "ok" ELSE "failed")
              ELSE "none")

\* save_data: OpenOptions::new().write(true).create(true).truncate(true).open(..).
\* A successful open leaves a file of no bytes; with faults the open may fail.
SaveOpen(p, faults) ==
    /\ pc[p] = "save_open"
    /\ \E opened \in (IF faults THEN BOOLEAN ELSE {TRUE}) :
        /\ file' = IF opened THEN Empty ELSE file
        /\ pc' = [pc EXCEPT ![p] = IF opened THEN "save_write" ELSE "idle"]
        /\ mem' = [mem EXCEPT ![p] = IF opened THEN @ ELSE new]
        /\ result' = [result EXCEPT ![p] = IF opened THEN @ ELSE Err("SaveDataError")]
    /\ UNCHANGED <<overflow_checks, ncmds, cmd, before, probe, save_called,
                   last_written, ledger, reordered, metrics, metrics_reordered>>

\* save_data: serde_json::to_vec(&collections), then file.write_all(&*json),
\* which writes every byte or, with faults, fails after n of them.
SaveWrite(p, faults) ==
    /\ pc[p] = "save_write"
    /\ LET json == to_vec(mem[p])
           all == JsonLen(json)
       IN \E n \in (IF faults THEN {0, all - 1, all} ELSE {all}) :
            /\ file' = IF n = all THEN write_all(file, json) ELSE write_some(file, n)
            /\ result' = [result EXCEPT ![p] = IF n = all THEN Ok
                                               ELSE Err("SaveDataError")]
            /\ last_written' = IF n = all THEN json ELSE last_written
    /\ pc' = [pc EXCEPT ![p] = "idle"]
    /\ mem' = [mem EXCEPT ![p] = new]
    /\ UNCHANGED <<overflow_checks, ncmds, cmd, before, probe, save_called,
                   ledger, reordered, metrics, metrics_reordered>>

\* ------------------------------------------------------------------ order lists

\* The signed shares process_order is called with.
SignedShares == ShareArgs \cup {-n : n \in ShareArgs}

\* process_order pushes this order onto a position with these orders and keeps
\* the position in portfolio.
Accepts(orders, shares) ==
    LET total_shares == fold_shares(orders)
        abs == i32_abs(shares)
    IN /\ orders = <<>> => shares > 0
       /\ ~total_shares.panic
       /\ ~abs.panic
       /\ ~sells_more_than_held(shares, total_shares.v, abs.v)
       /\ ~sells_all_held(shares, total_shares.v, abs.v)

\* One more order joins the ledger, the order list of a portfolio position.
Push ==
    /\ Len(ledger) < MaxOrders
    /\ \E shares \in SignedShares, price \in PriceArgs :
        /\ Accepts(ledger, shares)
        /\ ledger' = Append(ledger, Order(shares, price))
    /\ reordered' = ledger'
    /\ metrics' = calculate_order_metrics(ledger')
    /\ metrics_reordered' = metrics'
    /\ UNCHANGED <<file, overflow_checks, ncmds, pc, cmd, mem, result, before, probe,
                   save_called, last_written>>

\* The same orders in another order.
Reorder ==
    /\ \E f \in Permutations(DOMAIN ledger) :
        reordered' = [i \in DOMAIN ledger |-> ledger[f[i]]]
    /\ metrics_reordered' = calculate_order_metrics(reordered')
    /\ UNCHANGED <<file, overflow_checks, ncmds, pc, cmd, mem, result, before, probe,
                   save_called, last_written, ledger, metrics>>

\* ------------------------------------------------------------------ Spec

\* No data file yet (an empty store), either build.
Init ==
    /\ file = Absent
    /\ overflow_checks \in BOOLEAN
    /\ ncmds = 0
    /\ pc = [p \in Procs |-> "idle"]
    /\ cmd = [p \in Procs |-> NoCommand]
    /\ mem = [p \in Procs |-> new]
    /\ result = [p \in Procs |-> NoResult]
    /\ before = [p \in Procs |-> Absent]
    /\ probe = [p \in Procs |-> "none"]
    /\ save_called = [p \in Procs |-> FALSE]
    /\ last_written = to_vec(new)
    /\ ledger = <<>>
    /\ reordered = <<>>
    /\ metrics = calculate_order_metrics(<<>>)
    /\ metrics_reordered = calculate_order_metrics(<<>>)

\* One invocation at a time: each command runs to its end before the next starts.
Next ==
    \/ Buy(1, MaxCmds)
    \/ Sell(1, MaxCmds)
    \/ Watch(1, MaxCmds)
    \/ SaveOpen(1, TRUE)
    \/ SaveWrite(1, TRUE)

Spec == Init /\ [][Next]_vars

\* Two invocations whose steps interleave; the file system never fails.
NextConc ==
    \E p \in Procs :
        \/ Buy(p, MaxConcCmds)
        \/ Sell(p, MaxConcCmds)
        \/ Watch(p, MaxConcCmds)
        \/ SaveOpen(p, FALSE)
        \/ SaveWrite(p, FALSE)

SpecConc == Init /\ [][NextConc]_vars

\* calculate_order_metrics on the order lists of portfolio positions and on
\* their permutations, in either build.
NextMetrics == Push \/ Reorder

SpecMetrics == Init /\ [][NextMetrics]_vars

\* ------------------------------------------------------------------ claims

\* The store a file holds for load_data: the empty store when there is no file.
Stored(f) == IF f.kind = "json" THEN f.doc ELSE to_vec(new)
Readable(f) == f.kind \in {"absent", "json"}

\* Invocation p has run a command to its end.
Ended(p) == pc[p] = "idle" /\ result[p].kind # "None"
Succeeded(p) == pc[p] = "idle" /\ result[p].kind = "Ok"

\* The orders a store holds for a symbol as an owned or a closed position.
OrdersIn(map, k) == IF k \in DOMAIN map THEN map[k].orders ELSE <<>>
OrdersOf(doc, k) == OrdersIn(doc.portfolio, k) \o OrdersIn(doc.archive, k)
Count(orders, o) == Cardinality({i \in DOMAIN orders : orders[i] = o})
AllNetPositive(map) ==
    \A k \in DOMAIN map : WidePositive(NetShares(map[k].orders))

C2_PortfolioArchiveDisjoint ==
    file.kind = "json" =>
        DOMAIN file.doc.portfolio \cap DOMAIN file.doc.archive = {}

\* C3: an order saved by a successful buy or sell is still there, with its
\* shares and price, in the symbol's portfolio or archive position after every
\* later successful command.
C3_OrdersNeverRemoved ==
    \A p \in Procs :
        (Succeeded(p) /\ file.kind = "json") =>
            LET old == Stored(before[p]) IN
            \A k \in DOMAIN old.portfolio \cup DOMAIN old.archive :
                \A i \in DOMAIN OrdersOf(old, k) :
                    Count(OrdersOf(file.doc, k), OrdersOf(old, k)[i])
                        >= Count(OrdersOf(old, k), OrdersOf(old, k)[i])

\* The key a command's symbol and exchange arguments name, and its signed order.
KeyOf(c) == to_uppercase(main_symbol(c.symbol, c.exchange).symbol)
OrderOf(c) == Order(IF c.name = "sell" THEN -c.shares ELSE c.shares, c.price)
IsOrder(c) == c.name \in {"buy", "sell"}

\* C4: a successful sell of exactly the net shares held moves the position, with
\* its order list and the closing sell (net shares 0), from portfolio to
\* archive; every other successful buy or sell leaves the position in portfolio
\* with the order appended and archive as it was.
C4_LeavesPortfolioExactlyWhenSoldOut ==
    \A p \in Procs :
        (Succeeded(p) /\ IsOrder(cmd[p]) /\ file.kind = "json") =>
            LET old == Stored(before[p])
                k == KeyOf(cmd[p])
                held == NetShares(OrdersIn(old.portfolio, k))
                orders == Append(OrdersIn(old.portfolio, k), OrderOf(cmd[p]))
            IN
            IF cmd[p].name = "sell" /\ WideOf(cmd[p].shares) = held
            THEN /\ k \notin DOMAIN file.doc.portfolio
                 /\ k \in DOMAIN file.doc.archive
                 /\ file.doc.archive[k].orders = orders
                 /\ NetShares(orders) = WideZero
            ELSE /\ k \in DOMAIN file.doc.portfolio
                 /\ file.doc.portfolio[k].orders = orders
                 /\ file.doc.archive = old.archive

\* C5: a sell of more shares than the portfolio holds of the symbol (none when
\* the symbol has no position) ends with InvalidShareQuantity{symbol, shares},
\* without a call of save_data and with the data file as it was.  The exchange
\* code is a recognized one and the data file is readable.
C5_OversellRejected ==
    \A p \in Procs :
        LET c == cmd[p]
            held == NetShares(OrdersIn(Stored(before[p]).portfolio, KeyOf(c)))
        IN
        (/\ Ended(p)
         /\ c.name = "sell"
         /\ main_symbol(c.symbol, c.exchange).ok
         /\ Readable(before[p])
         /\ ExceedsWide(c.shares, held)) =>
            /\ result[p] = InvalidShareQuantity(KeyOf(c), c.shares)
            /\ ~save_called[p]
            /\ file = before[p]

\* C5 witness: a sell of more shares than an existing position holds has ended.
C5_Witness ==
    \E p \in Procs :
        /\ Ended(p)
        /\ cmd[p].name = "sell"
        /\ KeyOf(cmd[p]) \in DOMAIN Stored(before[p]).portfolio
        /\ ExceedsWide(cmd[p].shares,
                       NetShares(Stored(before[p]).portfolio[KeyOf(cmd[p])].orders))
        /\ result[p].kind = "InvalidShareQuantity"

\* C6: a command that ends in an error, SaveDataError included, leaves the data
\* file with the content it had when the command started.
C6_ErrorLeavesFileUntouched ==
    \A p \in Procs : (Ended(p) /\ result[p].kind # "Ok") => file = before[p]

\* C7: when the steps of two invocations interleave, every load returns a
\* complete saved store or the empty store, and once both have ended the data
\* file holds exactly what the last write_all wrote.
C7_LastSaveWins ==
    /\ \A p \in Procs : Readable(before[p])
    /\ ((\A p \in Procs : Ended(p)) /\ (\E p \in Procs : result[p].kind = "Ok"))
            => file = Json(last_written)

\* C8: watchlist positions have no orders; a successful watch sets
\* watchlist[uppercase(symbol)] to a position without orders, replacing the
\* entry there; buy and sell leave watchlist as it was.
C8_WatchlistHasNoOrders ==
    /\ file.kind = "json" =>
        \A k \in DOMAIN file.doc.watchlist : file.doc.watchlist[k].orders = <<>>
    /\ \A p \in Procs :
        LET c == cmd[p]
            old == Stored(before[p])
        IN
        /\ (Succeeded(p) /\ c.name = "watch" /\ file.kind = "json") =>
                file.doc.watchlist =
                    insert(old.watchlist, KeyOf(c),
                           [symbol |-> KeyOf(c),
                            exchange |-> from_symbol(c.exchange).exchange,
                            orders |-> <<>>])
        /\ (Ended(p) /\ IsOrder(c) /\ file.kind = "json") =>
                file.doc.watchlist = old.watchlist

\* C8 witness: a buy has succeeded for a symbol that is on the watchlist.
C8_Witness ==
    \E p \in Procs :
        /\ Succeeded(p)
        /\ cmd[p].name = "buy"
        /\ file.kind = "json"
        /\ KeyOf(cmd[p]) \in DOMAIN file.doc.watchlist
        /\ KeyOf(cmd[p]) \in DOMAIN file.doc.portfolio

\* C9: a watch whose probe fetch fails ends with AlphaVantageError, without a
\* call of save_data, and the data file, so the watchlist, is as it was.
C9_FailedFetchAborts ==
    \A p \in Procs :
        probe[p] = "failed" =>
            /\ Ended(p)
            /\ result[p] = Err("AlphaVantageError")
            /\ ~save_called[p]
            /\ file = before[p]

\* C9 witness: the fetch of a watch failed for a symbol not yet on a stored watchlist.
C9_Witness ==
    \E p \in Procs :
        /\ probe[p] = "failed"
        /\ file.kind = "json"
        /\ KeyOf(cmd[p]) \notin DOMAIN file.doc.watchlist

\* C10: for every non-empty order list calculate_order_metrics returns the
\* arithmetic sum of the signed shares as total_shares, and total_shares,
\* total_spent and total_sell are the same for every permutation of the list.
C10_TotalSharesIsSum ==
    ledger # <<>> =>
        /\ ~metrics.panic
        /\ WideOf(metrics.total_shares) = NetShares(ledger)
        /\ ~metrics_reordered.panic
        /\ metrics_reordered.total_shares = metrics.total_shares
        /\ metrics_reordered.total_spent = metrics.total_spent
        /\ metrics_reordered.total_sell = metrics.total_sell

\* The codes of the venues of Exchange: TSX, TSXV and NYSE.
VenueCodes == {<<"t", "s", "x">>, <<"t", "s", "x", "v">>, <<"n", "y", "s", "e">>}
IsVenueCode(exchange) == exchange.some /\ to_lowercase(exchange.v) \in VenueCodes

\* C11: a buy, sell or watch with an exchange code that is no venue code ends
\* with InvalidExchange, without a call of save_data and with the data file as
\* it was; with a venue code or without a code it never ends with
\* InvalidExchange.
C11_InvalidExchangeIffUnrecognized ==
    \A p \in Procs :
        (Ended(p) /\ cmd[p].name \in {"buy", "sell", "watch"}) =>
            IF cmd[p].exchange.some /\ ~IsVenueCode(cmd[p].exchange)
            THEN /\ result[p] = Err("InvalidExchange")
                 /\ ~save_called[p]
                 /\ file = before[p]
            ELSE result[p].kind # "InvalidExchange"

====
